---- MODULE Spec2Model ----
(***************************************************************************)
(* Geospatial enrichment, structured filtering and free-text query parsing *)
(* of the 3D city dashboard backend (backend/app.py, services/llm.py,      *)
(* services/data_fetch.py).                                                *)
(*                                                                         *)
(* Python values are records [t, n, s]: t is the Python type ("null",      *)
(* "int", "float", "str", "list"), n the number (an int as it is, a float  *)
(* in hundredths: PyFloat(3048) is 30.48), s the string as a tuple of      *)
(* one-character strings, l the elements of a list.                        *)
(***************************************************************************)
EXTENDS Integers, Sequences, FiniteSets, TLC

VARIABLES
    \* enrich_with_zoning_and_assessment
    buildings, landuse, assessments, land_geoms, assess_geoms, bi, pc,
    \* apply_filters
    features, filters, matched,
    \* parse_filters
    token, hub, primary, query, ci, last_err, attempts, result,
    \* _fallback_rule_based
    qtext, extracted,
    \* norm_building, norm_land_use, norm_assess
    feature, normed

enrichVars == <<buildings, landuse, assessments, land_geoms, assess_geoms, bi>>
filterVars == <<features, filters, matched>>
parseVars == <<token, hub, primary, query, ci, last_err, attempts, result>>
extractVars == <<qtext, extracted>>
normVars == <<feature, normed>>
vars == <<enrichVars, filterVars, parseVars, extractVars, normVars, pc>>

\* the state of the operations that are not running
EnrichIdle ==
    /\ buildings = <<>> /\ landuse = <<>> /\ assessments = <<>>
    /\ land_geoms = <<>> /\ assess_geoms = <<>> /\ bi = 0
FilterIdle == features = <<>> /\ filters = <<>> /\ matched = <<>>
ParseIdle ==
    /\ token = "" /\ hub = FALSE /\ primary = "" /\ query = <<>>
    /\ ci = 0 /\ last_err = "None" /\ attempts = <<>>
    /\ result = [filters |-> <<>>, note |-> ""]
ExtractIdle == qtext = <<>> /\ extracted = <<>>
NormIdle == feature = <<>> /\ normed = <<>>

----------------------------------------------------------------------------
\* Python values

None == [t |-> "null", n |-> 0, s |-> <<>>, l |-> <<>>]
PyInt(k) == [t |-> "int", n |-> k, s |-> <<>>, l |-> <<>>]
PyFloat(k) == [t |-> "float", n |-> k, s |-> <<>>, l |-> <<>>]
PyStr(cs) == [t |-> "str", n |-> 0, s |-> cs, l |-> <<>>]
PyList(xs) == [t |-> "list", n |-> 0, s |-> <<>>, l |-> xs]

Unknown == PyStr(<<"U", "n", "k", "n", "o", "w", "n">>)
RCG == PyStr(<<"R", "C", "-", "G">>)
CCOR == PyStr(<<"C", "-", "C", "O", "R">>)

----------------------------------------------------------------------------
\* Geometry: GeoJSON geometries are axis-aligned rectangles on a grid.
\*   kind "none"       the record carries no geometry (None or {})
\*   kind "invalid"    a geometry mapping shapely's shape() rejects
\*   kind "polygon"    a well-formed polygon
\*   kind "degenerate" shape() accepts it, a containment test on it raises

Geom(k, x1, y1, x2, y2) == [kind |-> k, x1 |-> x1, y1 |-> y1, x2 |-> x2, y2 |-> y2]

NoGeom == Geom("none", 0, 0, 0, 0)
InvalidGeom == Geom("invalid", 0, 0, 0, 0)
DegenerateGeom == Geom("degenerate", 0, 0, 0, 0)
Footprint == Geom("polygon", 0, 0, 2, 2)
NearPoly == Geom("polygon", 0, 0, 4, 4)
FarPoly == Geom("polygon", 4, 4, 6, 6)

\* f.get("geometry") is truthy
HasGeometry(f) == f.geometry.kind # "none"

\* shape(g) raises on a geometry it cannot build
ShapeRaises(g) == g.kind = "invalid"

\* shape(g).centroid, in doubled coordinates so that it stays an integer
Centroid(g) == [x |-> g.x1 + g.x2, y |-> g.y1 + g.y2]

\* poly.contains(c) raises
ContainsRaises(poly) == poly.kind = "degenerate"

\* poly.contains(c): c lies in the interior of poly
Contains(poly, c) ==
    /\ poly.kind = "polygon"
    /\ 2 * poly.x1 < c.x /\ c.x < 2 * poly.x2
    /\ 2 * poly.y1 < c.y /\ c.y < 2 * poly.y2

\* [shape(f["geometry"]) for f in records if f.get("geometry")]
RECURSIVE GeomList(_)
GeomList(records) ==
    IF records = <<>> THEN <<>>
    ELSE IF HasGeometry(Head(records))
         THEN <<Head(records).geometry>> \o GeomList(Tail(records))
         ELSE GeomList(Tail(records))

\* the list comprehension raises when shape() rejects one of the geometries
GeomListRaises(records) ==
    \E i \in 1..Len(records) :
        HasGeometry(records[i]) /\ ShapeRaises(records[i].geometry)

----------------------------------------------------------------------------
\* The spatial index. STRtree.query(c, predicate="contains") is library code:
\* it either raises (a Shapely without predicate queries), reports nothing
\* (the linear scan then decides), or reports the positions in the geometry
\* list of the polygons containing c, in the tree's own traversal order.

Perms(S) ==
    {p \in [1..Cardinality(S) -> S] : \A i, j \in DOMAIN p : i # j => p[i] # p[j]}

Matching(geoms, c) == {i \in 1..Len(geoms) : Contains(geoms[i], c)}

QueryOutcomes(geoms, c) ==
    {[raises |-> TRUE, idxs |-> <<>>], [raises |-> FALSE, idxs |-> <<>>]}
        \cup {[raises |-> FALSE, idxs |-> p] : p \in Perms(Matching(geoms, c))}

\* for i, poly in enumerate(geoms): if poly.contains(c): ...; break
\* inside the outer try: 0 when nothing contains c, -1 when a test raises
RECURSIVE Scan(_, _, _)
Scan(geoms, c, i) ==
    IF i > Len(geoms) THEN 0
    ELSE IF ContainsRaises(geoms[i]) THEN -1
    ELSE IF Contains(geoms[i], c) THEN i
    ELSE Scan(geoms, c, i + 1)

\* the scan of the except branch: a polygon whose test raises is skipped
RECURSIVE SafeScan(_, _, _)
SafeScan(geoms, c, i) ==
    IF i > Len(geoms) THEN 0
    ELSE IF ContainsRaises(geoms[i]) THEN SafeScan(geoms, c, i + 1)
    ELSE IF Contains(geoms[i], c) THEN i
    ELSE SafeScan(geoms, c, i + 1)

\* the position the code reads the matched record at (0: no match)
MatchIndex(geoms, c, q) ==
    IF q.raises THEN SafeScan(geoms, c, 1)
    ELSE IF Len(q.idxs) > 0 THEN q.idxs[1]
    ELSE LET r == Scan(geoms, c, 1)
         IN IF r = -1 THEN SafeScan(geoms, c, 1) ELSE r

\* if land_tree: ... b["zoning"] = landuse[idx]["zoning"]
\* the position found in land_geoms is used as a position in landuse
ZoningAt(c, q) ==
    IF land_geoms = <<>> THEN Unknown
    ELSE LET i == MatchIndex(land_geoms, c, q)
         IN IF i = 0 THEN Unknown ELSE landuse[i].zoning

\* if assess_tree: ... b["assessed_value"] = assessments[idx]["assessed_value"]
AssessedAt(c, q) ==
    IF assess_geoms = <<>> THEN None
    ELSE LET i == MatchIndex(assess_geoms, c, q)
         IN IF i = 0 THEN None ELSE assessments[i].assessed_value

----------------------------------------------------------------------------
\* Inputs of one enrichment call: normalized records

MaxBuildings == 2
MaxPolys == 2
MaxParcels == 1

SeqsUpTo(S, n) == UNION {[1..k -> S] : k \in 0..n}

\* norm_building: zoning is the raw property (or None), assessed_value None
\* and raw keeps the source properties (here: their zoning attribute)
NormBuilding(g, z) ==
    [geometry |-> g, zoning |-> z, assessed_value |-> None, raw |-> z]

BuildingRecs ==
    {NormBuilding(NoGeom, RCG), NormBuilding(InvalidGeom, None),
     NormBuilding(Footprint, RCG)}

\* norm_land_use
ZoningRecs ==
    {[geometry |-> NoGeom, zoning |-> RCG],
     [geometry |-> InvalidGeom, zoning |-> RCG],
     [geometry |-> DegenerateGeom, zoning |-> RCG],
     [geometry |-> NearPoly, zoning |-> RCG],
     [geometry |-> NearPoly, zoning |-> CCOR],
     [geometry |-> FarPoly, zoning |-> CCOR]}

\* norm_assess
ParcelRecs ==
    {[geometry |-> NoGeom, assessed_value |-> PyFloat(42000000)],
     [geometry |-> NearPoly, assessed_value |-> PyFloat(98000000)],
     [geometry |-> FarPoly, assessed_value |-> PyFloat(50000000)]}

InitEnrich ==
    /\ buildings \in SeqsUpTo(BuildingRecs, MaxBuildings)
    /\ landuse \in SeqsUpTo(ZoningRecs, MaxPolys)
    /\ assessments \in SeqsUpTo(ParcelRecs, MaxParcels)
    /\ land_geoms = <<>>
    /\ assess_geoms = <<>>
    /\ bi = 0
    /\ pc = "start"
    /\ FilterIdle /\ ParseIdle /\ ExtractIdle /\ NormIdle

\* lines 53-56: the two geometry lists and their trees
BuildIndex ==
    /\ pc = "start"
    /\ IF GeomListRaises(landuse) \/ GeomListRaises(assessments)
       THEN /\ pc' = "raised"
            /\ UNCHANGED <<land_geoms, assess_geoms, bi>>
       ELSE /\ land_geoms' = GeomList(landuse)
            /\ assess_geoms' = GeomList(assessments)
            /\ bi' = 1
            /\ pc' = "loop"
    /\ UNCHANGED <<buildings, landuse, assessments, filterVars, parseVars>>
    /\ UNCHANGED <<extractVars, normVars>>

\* the reset without its zoning line
ResetAssessedOnly(b) == [b EXCEPT !.assessed_value = None]

\* lines 59-60: b["zoning"] = "Unknown"; b["assessed_value"] = None
ResetBuilding(b) == [b EXCEPT !.zoning = Unknown, !.assessed_value = None]

\* lines 58-107: one iteration of the loop over the buildings
EnrichBuilding ==
    /\ pc = "loop"
    /\ bi <= Len(buildings)
    /\ LET b == buildings[bi]
           reset == ResetBuilding(b)
       IN IF ~HasGeometry(b)
          THEN /\ buildings' = [buildings EXCEPT ![bi] = reset]
               /\ bi' = bi + 1
               /\ pc' = "loop"
          ELSE IF ShapeRaises(b.geometry)
          THEN /\ buildings' = [buildings EXCEPT ![bi] = reset]
               /\ bi' = bi
               /\ pc' = "raised"
          ELSE \E lq \in QueryOutcomes(land_geoms, Centroid(b.geometry)),
                  aq \in QueryOutcomes(assess_geoms, Centroid(b.geometry)) :
               /\ buildings' = [buildings EXCEPT ![bi] =
                      [reset EXCEPT !.zoning = ZoningAt(Centroid(b.geometry), lq),
                                    !.assessed_value = AssessedAt(Centroid(b.geometry), aq)]]
               /\ bi' = bi + 1
               /\ pc' = "loop"
    /\ UNCHANGED <<landuse, assessments, land_geoms, assess_geoms, filterVars, parseVars>>
    /\ UNCHANGED <<extractVars, normVars>>

\* line 108: return buildings
ReturnBuildings ==
    /\ pc = "loop"
    /\ bi > Len(buildings)
    /\ pc' = "done"
    /\ UNCHANGED <<enrichVars, filterVars, parseVars, extractVars, normVars>>

NextEnrich == BuildIndex \/ EnrichBuilding \/ ReturnBuildings

SpecEnrich == InitEnrich /\ [][NextEnrich]_vars

----------------------------------------------------------------------------
\* Properties of enrich_with_zoning_and_assessment

\* the records of the input list whose polygon contains the point
ContainingRecords(records, c) ==
    {j \in 1..Len(records) :
        HasGeometry(records[j]) /\ Contains(records[j].geometry, c)}

Min(S) == CHOOSE m \in S : \A k \in S : m <= k

\* the buildings that reached the spatial queries
Located == {i \in 1..Len(buildings) : HasGeometry(buildings[i])}

\* C1: after enrichment a building whose centroid lies inside exactly one
\* zoning polygon carries the label of that polygon's own record, and its
\* assessed value is that of the one parcel containing the centroid, also
\* when some zoning or assessment records have no geometry.
C1_OwnRecordOfTheOnlyMatch ==
    pc = "done" =>
        \A i \in Located :
            LET c == Centroid(buildings[i].geometry)
                Z == ContainingRecords(landuse, c)
                A == ContainingRecords(assessments, c)
            IN /\ Cardinality(Z) = 1 => buildings[i].zoning = landuse[Min(Z)].zoning
               /\ Cardinality(A) = 1 =>
                      buildings[i].assessed_value = assessments[Min(A)].assessed_value

\* C2: when several polygons contain the centroid the building gets the value
\* of the one that comes first in the input list, whatever order the index
\* reports its matches in.
C2_FirstInInputOrder ==
    pc = "done" =>
        \A i \in Located :
            LET c == Centroid(buildings[i].geometry)
                Z == ContainingRecords(landuse, c)
                A == ContainingRecords(assessments, c)
            IN /\ Z # {} => buildings[i].zoning = landuse[Min(Z)].zoning
               /\ A # {} =>
                      buildings[i].assessed_value = assessments[Min(A)].assessed_value

\* C3: the enrichment never raises, whatever the geometries are.
C3_NeverRaises == pc # "raised"

----------------------------------------------------------------------------
\* Python's conversions, as apply_filters uses them

UpperCase == <<"A", "B", "C", "D", "E", "F", "G", "H", "I", "J", "K", "L", "M",
               "N", "O", "P", "Q", "R", "S", "T", "U", "V", "W", "X", "Y", "Z">>
LowerCase == <<"a", "b", "c", "d", "e", "f", "g", "h", "i", "j", "k", "l", "m",
               "n", "o", "p", "q", "r", "s", "t", "u", "v", "w", "x", "y", "z">>
DigitChars == <<"0", "1", "2", "3", "4", "5", "6", "7", "8", "9">>

\* str.lower()
LowerChar(ch) ==
    IF \E i \in 1..26 : UpperCase[i] = ch
    THEN LowerCase[CHOOSE i \in 1..26 : UpperCase[i] = ch]
    ELSE ch

Lower(cs) == [i \in 1..Len(cs) |-> LowerChar(cs[i])]

IsDigit(ch) == \E i \in 1..10 : DigitChars[i] = ch
DigitValue(ch) == (CHOOSE i \in 1..10 : DigitChars[i] = ch) - 1

\* str(k) of a number k >= 0
RECURSIVE Digits(_)
Digits(k) ==
    IF k < 10 THEN <<DigitChars[k + 1]>>
    ELSE Digits(k \div 10) \o <<DigitChars[(k % 10) + 1]>>

\* the number a digit string denotes
RECURSIVE DigitsValue(_)
DigitsValue(cs) ==
    IF cs = <<>> THEN 0
    ELSE 10 * DigitsValue(SubSeq(cs, 1, Len(cs) - 1)) + DigitValue(cs[Len(cs)])

\* float(v) raises: None and lists (TypeError), strings that are no number
\* (ValueError). The strings of the model are digit strings and words.
FloatRaises(v) ==
    \/ v.t \in {"null", "list"}
    \/ v.t = "str" /\ (v.s = <<>> \/ \E i \in 1..Len(v.s) : ~IsDigit(v.s[i]))

\* float(v) where it does not raise, in hundredths
FloatOf(v) ==
    CASE v.t = "str" -> 100 * DigitsValue(v.s)
      [] v.t = "int" -> 100 * v.n
      [] OTHER -> v.n

\* str(x) of a float x >= 0 given in hundredths: 1800 is "18.0", 3048 "30.48"
FloatStr(h) ==
    Digits(h \div 100) \o <<".">> \o
        (IF h % 10 = 0 THEN Digits((h % 100) \div 10)
         ELSE Digits((h % 100) \div 10) \o Digits(h % 10))

\* repr(x) of a list element
ReprOf(x) ==
    CASE x.t = "str" -> <<"'">> \o x.s \o <<"'">>
      [] x.t = "int" -> Digits(x.n)
      [] x.t = "float" -> FloatStr(x.n)
      [] OTHER -> <<"N", "o", "n", "e">>

RECURSIVE JoinRepr(_)
JoinRepr(xs) ==
    IF xs = <<>> THEN <<>>
    ELSE IF Len(xs) = 1 THEN ReprOf(xs[1])
    ELSE ReprOf(xs[1]) \o <<",", " ">> \o JoinRepr(Tail(xs))

\* str(v)
StrOf(v) ==
    CASE v.t = "str" -> v.s
      [] v.t = "int" -> Digits(v.n)
      [] v.t = "float" -> FloatStr(v.n)
      [] v.t = "list" -> <<"[">> \o JoinRepr(v.l) \o <<"]">>
      [] OTHER -> <<"N", "o", "n", "e">>

\* bool(v)
Truthy(v) ==
    CASE v.t = "str" -> v.s # <<>>
      [] v.t \in {"int", "float"} -> v.n # 0
      [] v.t = "list" -> v.l # <<>>
      [] OTHER -> FALSE

\* sub in text, for strings
IsSubstring(sub, text) ==
    \E k \in 0..(Len(text) - Len(sub)) : SubSeq(text, k + 1, k + Len(sub)) = sub

Abs(k) == IF k < 0 THEN -k ELSE k

----------------------------------------------------------------------------
\* apply_filters

Attributes == {"height_m", "levels", "zoning", "assessed_value", "use", "address"}
Operators == {">", "<", ">=", "<=", "=", "contains", "in"}
NumericAttributes == {"height_m", "assessed_value", "levels"}

\* f.get(attr): None when the key is missing
Get(f, attr) == IF attr \in DOMAIN f THEN f[attr] ELSE None

\* the comparison chain of the numeric branch, on floats in hundredths; an
\* ordering or a difference with None raises TypeError. Two numbers on the
\* grid of hundredths differ by less than 1e-6 only if they are equal.
NumericCompare(fv, op, val) ==
    IF fv.t = "null" /\ op \in {">", "<", ">=", "<=", "="} THEN "raise"
    ELSE IF \/ op = ">" /\ fv.n > val
            \/ op = "<" /\ fv.n < val
            \/ op = ">=" /\ fv.n >= val
            \/ op = "<=" /\ fv.n <= val
            \/ op = "=" /\ Abs(fv.n - val) < 1
         THEN "true" ELSE "false"

\* the numeric branch without its "if fv is None" test
OkNumericUnguarded(fv, op, val) ==
    IF (fv.t # "null" /\ FloatRaises(fv)) \/ FloatRaises(val) THEN "false"
    ELSE NumericCompare(IF fv.t = "null" THEN None ELSE PyFloat(FloatOf(fv)),
                        op, FloatOf(val))

\* lines 182-196: the numeric branch of ok
OkNumeric(fv, op, val) ==
    IF (fv.t # "null" /\ FloatRaises(fv)) \/ FloatRaises(val) THEN "false"
    ELSE IF fv.t = "null" THEN "false"
    ELSE NumericCompare(PyFloat(FloatOf(fv)), op, FloatOf(val))

\* the categorical branch ending in "return True"
OkCategoricalOpen(fv, op, val) ==
    LET sv == Lower(IF Truthy(fv) THEN StrOf(fv) ELSE <<>>)
        sval == Lower(StrOf(val))
    IN IF op = "=" THEN (IF sv = sval THEN "true" ELSE "false")
       ELSE IF op = "contains" THEN (IF IsSubstring(sval, sv) THEN "true" ELSE "false")
       ELSE IF op = "in" /\ val.t = "list"
            THEN (IF \E i \in 1..Len(val.l) : sv = Lower(StrOf(val.l[i]))
                  THEN "true" ELSE "false")
       ELSE "true"

\* lines 197-201: the categorical branch of ok
OkCategorical(fv, op, val) ==
    LET sv == Lower(IF Truthy(fv) THEN StrOf(fv) ELSE <<>>)
        sval == Lower(StrOf(val))
    IN IF op = "=" THEN (IF sv = sval THEN "true" ELSE "false")
       ELSE IF op = "contains" THEN (IF IsSubstring(sval, sv) THEN "true" ELSE "false")
       ELSE IF op = "in" /\ val.t = "list"
            THEN (IF \E i \in 1..Len(val.l) : sv = Lower(StrOf(val.l[i]))
                  THEN "true" ELSE "false")
       ELSE "false"

\* lines 179-201: ok(f, spec), "true", "false" or "raise"
Ok(f, spec) ==
    IF spec.attribute \in NumericAttributes
    THEN OkNumeric(Get(f, spec.attribute), spec.operator, spec.value)
    ELSE OkCategorical(Get(f, spec.attribute), spec.operator, spec.value)

\* any(ok(f, s) for s in specs[i:])
RECURSIVE AnyOk(_, _, _)
AnyOk(f, specs, i) ==
    IF i > Len(specs) THEN "false"
    ELSE LET r == Ok(f, specs[i])
         IN IF r = "false" THEN AnyOk(f, specs, i + 1) ELSE r

\* all(ok(f, s) for s in specs[i:]): stops at the first False, or raises
RECURSIVE AllOk(_, _, _)
AllOk(f, specs, i) ==
    IF i > Len(specs) THEN "true"
    ELSE LET r == Ok(f, specs[i])
         IN IF r = "true" THEN AllOk(f, specs, i + 1) ELSE r

\* line 202: [f for f in feats if all(ok(f, s) for s in specs)]
RECURSIVE ApplyFilters(_, _)
ApplyFilters(feats, specs) ==
    IF feats = <<>> THEN [raised |-> FALSE, out |-> <<>>]
    ELSE LET r == AllOk(Head(feats), specs, 1)
             rest == ApplyFilters(Tail(feats), specs)
         IN IF r = "raise" \/ rest.raised THEN [raised |-> TRUE, out |-> <<>>]
            ELSE IF r = "true" THEN [rest EXCEPT !.out = <<Head(feats)>> \o rest.out]
            ELSE rest

\* Inputs of one apply_filters call

MaxFeatures == 2
MaxFilters == 2

Mock1 ==
    [id |-> PyInt(1), height_m |-> PyFloat(1800), levels |-> PyInt(6), zoning |-> RCG,
     assessed_value |-> PyFloat(42000000),
     address |-> PyStr(<<"1", "0", "1", " ", "M", "o", "c", "k">>)]
Mock2 ==
    [id |-> PyInt(2), height_m |-> PyFloat(3500), levels |-> PyInt(12), zoning |-> CCOR,
     assessed_value |-> None, address |-> None]
\* a record that did not come out of norm_building: text where numbers belong
Loose3 ==
    [id |-> PyInt(3), height_m |-> PyStr(<<"t", "a", "l", "l">>),
     levels |-> PyStr(<<"6">>), zoning |-> Unknown]

FeatureRecs == {Mock1, Mock2, Loose3}

FilterSpec(a, o, v) == [attribute |-> a, operator |-> o, value |-> v]

SpecValues ==
    {PyInt(18), PyFloat(42000000), PyStr(<<"6">>), PyStr(<<"c", "-", "c">>), RCG,
     PyList(<<RCG, CCOR>>), None}

\* every FilterSpec of the closed sets over the values of the model
FilterSpecs ==
    {FilterSpec(a, o, v) : a \in Attributes, o \in Operators, v \in SpecValues}

\* the specs that are combined into longer filter lists
SampleSpecs ==
    {FilterSpec("height_m", ">=", PyInt(18)),
     FilterSpec("height_m", "=", PyInt(18)),
     FilterSpec("levels", "<=", PyStr(<<"6">>)),
     FilterSpec("assessed_value", ">", None),
     FilterSpec("zoning", "in", PyList(<<RCG, CCOR>>)),
     FilterSpec("zoning", "contains", PyStr(<<"c", "-", "c">>)),
     FilterSpec("address", ">", PyInt(18)),
     FilterSpec("use", "=", PyStr(<<>>))}

InitFilter ==
    /\ features \in SeqsUpTo(FeatureRecs, MaxFeatures)
    /\ filters \in SeqsUpTo(SampleSpecs, MaxFilters) \cup {<<s>> : s \in FilterSpecs}
    /\ matched = <<>>
    /\ pc = "apply"
    /\ EnrichIdle /\ ParseIdle /\ ExtractIdle /\ NormIdle

\* lines 178-202: one call of apply_filters
ApplyFiltersCall ==
    /\ pc = "apply"
    /\ LET r == ApplyFilters(features, filters)
       IN /\ matched' = r.out
          /\ pc' = IF r.raised THEN "apply_raised" ELSE "applied"
    /\ UNCHANGED <<features, filters, enrichVars, parseVars, extractVars, normVars>>

NextFilter == ApplyFiltersCall

SpecFilter == InitFilter /\ [][NextFilter]_vars

----------------------------------------------------------------------------
\* Properties of apply_filters

Range(sq) == {sq[i] : i \in 1..Len(sq)}

Satisfies(f, spec) == Ok(f, spec) = "true"

\* C4: apply_filters returns exactly the buildings that satisfy every spec of
\* the list, in input order and unmodified (all of them for the empty list);
\* for two specs that is the intersection of what each spec alone returns.
C4_ConjunctionOfSpecs ==
    pc = "applied" =>
        LET SatAll(f) == \A i \in 1..Len(filters) : Satisfies(f, filters[i])
            InBoth(f) == \A i \in 1..Len(filters) :
                             f \in Range(ApplyFilters(features, <<filters[i]>>).out)
        IN /\ matched = SelectSeq(features, SatAll)
           /\ filters = <<>> => matched = features
           /\ Len(filters) = 2 => matched = SelectSeq(features, InBoth)

\* two specs with different matches, the result being the buildings they share
C4_Witness ==
    /\ pc = "applied"
    /\ Len(filters) = 2
    /\ matched # <<>>
    /\ \E i, j \in 1..Len(features) :
        /\ Satisfies(features[i], filters[1]) /\ ~Satisfies(features[i], filters[2])
        /\ Satisfies(features[j], filters[1]) /\ Satisfies(features[j], filters[2])
        /\ matched = <<features[j]>>

\* the cases in which a spec must exclude a building
FailsClosed(f, spec) ==
    \/ /\ spec.attribute \in NumericAttributes
       /\ \/ Get(f, spec.attribute) = None
          \/ FloatRaises(Get(f, spec.attribute))
          \/ FloatRaises(spec.value)
          \/ spec.operator \in {"contains", "in"}
    \/ /\ spec.attribute \notin NumericAttributes
       /\ spec.operator \in {">", "<", ">=", "<="}
    \/ spec.operator = "in" /\ spec.value.t # "list"

\* C5: apply_filters never raises, and a spec on a numeric attribute whose
\* field is absent or whose field or value is no number, a numeric attribute
\* with contains/in, a categorical attribute with an ordering operator, and
\* "in" with a non-list value all exclude the building.
C5_FailsClosed ==
    /\ pc # "apply_raised"
    /\ pc = "applied" =>
           \A i \in 1..Len(features), k \in 1..Len(filters) :
               FailsClosed(features[i], filters[k]) => features[i] \notin Range(matched)

\* a numeric spec meets a building without the field and excludes it, while
\* the building that has the field is returned
C5_Witness ==
    /\ pc = "applied"
    /\ Len(filters) = 1
    /\ filters[1].attribute = "assessed_value"
    /\ \E i, j \in 1..Len(features) :
        /\ Get(features[i], "assessed_value") = None
        /\ features[i] \notin Range(matched)
        /\ features[j] \in Range(matched)

----------------------------------------------------------------------------
\* _fallback_rule_based: the deterministic extractor, on the query as a
\* tuple of characters. The regular expressions are matched as re.search
\* matches them: leftmost start, greedy repetition.

IsUpper(ch) == \E i \in 1..26 : UpperCase[i] = ch
IsLower(ch) == \E i \in 1..26 : LowerCase[i] = ch
IsSpace(ch) == ch = " "
\* \w
IsWordChar(ch) == IsUpper(ch) \/ IsLower(ch) \/ IsDigit(ch) \/ ch = "_"

\* the character at position i, "" outside the text
At(t, i) == IF i \in 1..Len(t) THEN t[i] ELSE ""

\* \b between positions i and i + 1
Boundary(t, i) == IsWordChar(At(t, i)) # IsWordChar(At(t, i + 1))

\* the last position of the longest run of digits / spaces / capitals / digits
\* and commas that starts at i (i - 1 when there is none)
DigitRunEnd(t, i) ==
    CHOOSE j \in (i - 1)..Len(t) :
        (\A k \in i..j : IsDigit(t[k])) /\ ~IsDigit(At(t, j + 1))
SpaceRunEnd(t, i) ==
    CHOOSE j \in (i - 1)..Len(t) :
        (\A k \in i..j : IsSpace(t[k])) /\ ~IsSpace(At(t, j + 1))
UpperRunEnd(t, i) ==
    CHOOSE j \in (i - 1)..Len(t) :
        (\A k \in i..j : IsUpper(t[k])) /\ ~IsUpper(At(t, j + 1))
AmountRunEnd(t, i) ==
    CHOOSE j \in (i - 1)..Len(t) :
        /\ \A k \in i..j : IsDigit(t[k]) \/ t[k] = ","
        /\ ~(IsDigit(At(t, j + 1)) \/ At(t, j + 1) = ",")

HasWordAt(t, i, w) == i + Len(w) - 1 <= Len(t) /\ SubSeq(t, i, i + Len(w) - 1) = w

\* \d+(?:\.\d+)? at i: the last position of the match, 0 when there is none
NumberEnd(t, i) ==
    LET j == DigitRunEnd(t, i)
    IN IF j < i THEN 0
       ELSE IF At(t, j + 1) = "." /\ IsDigit(At(t, j + 2)) THEN DigitRunEnd(t, j + 2)
       ELSE j

\* \d+ at i
IntegerEnd(t, i) == LET j == DigitRunEnd(t, i) IN IF j < i THEN 0 ELSE j

\* <number>\s*(?:unit|...)\b matches at i, the number ending at e
UnitFollows(t, e, units) ==
    LET k == SpaceRunEnd(t, e + 1)
    IN \E u \in units : HasWordAt(t, k + 1, u) /\ Boundary(t, k + Len(u))

FeetUnits == {<<"f", "t">>, <<"f", "e", "e", "t">>}
MeterUnits == {<<"m">>, <<"m", "e", "t", "e", "r">>, <<"m", "e", "t", "e", "r", "s">>}
LevelUnits ==
    {<<"l", "e", "v", "e", "l">>, <<"l", "e", "v", "e", "l", "s">>,
     <<"s", "t", "o", "r", "e", "y">>, <<"s", "t", "o", "r", "e", "y", "s">>,
     <<"s", "t", "o", "r", "i", "e">>, <<"s", "t", "o", "r", "i", "e", "s">>}

\* re.search: the least start position of a match, 0 for None
First(S) == IF S = {} THEN 0 ELSE CHOOSE m \in S : \A k \in S : m <= k

\* m_feet, m_meters, m_levels: where group(1) starts
FeetStart(ql) ==
    First({i \in 1..Len(ql) :
        NumberEnd(ql, i) > 0 /\ UnitFollows(ql, NumberEnd(ql, i), FeetUnits)})
MetersStart(ql) ==
    First({i \in 1..Len(ql) :
        NumberEnd(ql, i) > 0 /\ UnitFollows(ql, NumberEnd(ql, i), MeterUnits)})
LevelsStart(ql) ==
    First({i \in 1..Len(ql) :
        IntegerEnd(ql, i) > 0 /\ UnitFollows(ql, IntegerEnd(ql, i), LevelUnits)})

\* \b([A-Z]{1,3}-[A-Z]{1,3})\b at i: the last position of the match, or 0
ZoneEnd(q, i) ==
    LET a == UpperRunEnd(q, i)
        b == UpperRunEnd(q, a + 2)
    IN IF /\ Boundary(q, i - 1)
          /\ a >= i /\ a - i < 3
          /\ At(q, a + 1) = "-"
          /\ b >= a + 2 /\ b - (a + 2) < 3
          /\ Boundary(q, b)
       THEN b ELSE 0

\* m_zone, on the query as typed
ZoneStart(q) == First({i \in 1..Len(q) : ZoneEnd(q, i) > 0})

\* ([\d,]+(?:\.\d+)?)\b with the group starting at g: the ends the match can
\* have, as <<end of [\d,]+, end of the group>>
AmountEnds(t, g) ==
    {ae \in (g..AmountRunEnd(t, g)) \X (g..Len(t)) :
        /\ \/ ae[2] = ae[1]
           \/ /\ At(t, ae[1] + 1) = "."
              /\ ae[2] >= ae[1] + 2
              /\ ae[2] <= DigitRunEnd(t, ae[1] + 2)
        /\ Boundary(t, ae[2])}

\* the end the backtracking settles on: the longest [\d,]+, then the longest
\* decimal part
AmountEnd(t, g) ==
    LET E == AmountEnds(t, g)
        best == CHOOSE ae \in E :
                    \A o \in E : o[1] < ae[1] \/ (o[1] = ae[1] /\ o[2] <= ae[2])
    IN best[2]

\* m_money (\$?\s* before the group): where group(1) starts, 0 for None
MoneyStart(ql) == First({g \in 1..Len(ql) : AmountEnds(ql, g) # {}})

\* s.replace(",", "")
RECURSIVE WithoutCommas(_)
WithoutCommas(cs) ==
    IF cs = <<>> THEN <<>>
    ELSE IF Head(cs) = "," THEN WithoutCommas(Tail(cs))
    ELSE <<Head(cs)>> \o WithoutCommas(Tail(cs))

\* float() of digits with an optional decimal part of one or two digits, in
\* hundredths
DecimalValue(cs) ==
    LET dots == {i \in 1..Len(cs) : cs[i] = "."}
        dot == IF dots = {} THEN Len(cs) + 1 ELSE First(dots)
        frac == SubSeq(cs, dot + 1, Len(cs))
    IN 100 * DigitsValue(SubSeq(cs, 1, dot - 1))
       + (IF Len(frac) >= 1 THEN 10 * DigitValue(frac[1]) ELSE 0)
       + (IF Len(frac) >= 2 THEN DigitValue(frac[2]) ELSE 0)

\* round(feet * 0.3048, 2), feet and result in hundredths
FeetToMeters(h) == (h * 3048 + 5000) \div 10000

MoneyHints ==
    {<<"d", "o", "l", "l", "a", "r">>,
     <<"d", "o", "l", "l", "a", "r", "s">>,
     <<"v", "a", "l", "u", "e">>,
     <<"a", "s", "s", "e", "s", "s">>,
     <<"a", "s", "s", "e", "s", "s", "e", "d">>,
     <<"a", "s", "s", "e", "s", "s", "m", "e", "n", "t">>,
     <<"v", "a", "l", "u", "a", "t", "i", "o", "n">>,
     <<"p", "r", "i", "c", "e">>,
     <<"w", "o", "r", "t", "h">>,
     <<"c", "o", "s", "t">>}

HasAny(ql, words) == \E w \in words : IsSubstring(w, ql)

\* lines 27-32
MoneyHint(q, ql) == IsSubstring(<<"$">>, q) \/ HasAny(ql, MoneyHints)

\* the heuristics with the first matching test deciding
FirstHintWins(ql) ==
    IF HasAny(ql, {<<"l", "e", "s", "s", " ", "t", "h", "a", "n">>,
                   <<"u", "n", "d", "e", "r">>,
                   <<"b", "e", "l", "o", "w">>,
                   <<"<">>})
    THEN "<"
    ELSE IF HasAny(ql, {<<"a", "t", " ", "l", "e", "a", "s", "t">>, <<">", "=">>})
    THEN ">="
    ELSE IF HasAny(ql, {<<"a", "t", " ", "m", "o", "s", "t">>, <<"<", "=">>})
    THEN "<="
    ELSE IF HasAny(ql, {<<" ", "e", "q", "u", "a", "l">>, <<"e", "x", "a", "c", "t">>,
                        <<" ", "=", " ">>})
    THEN "=" ELSE ">"

\* lines 42-46: the operator heuristics, a later test overriding an earlier one
InferOperator(ql) ==
    LET op1 == IF HasAny(ql, {<<"l", "e", "s", "s", " ", "t", "h", "a", "n">>,
                              <<"u", "n", "d", "e", "r">>,
                              <<"b", "e", "l", "o", "w">>,
                              <<"<">>})
               THEN "<" ELSE ">"
        op2 == IF HasAny(ql, {<<"a", "t", " ", "l", "e", "a", "s", "t">>, <<">", "=">>})
               THEN ">=" ELSE op1
        op3 == IF HasAny(ql, {<<"a", "t", " ", "m", "o", "s", "t">>, <<"<", "=">>})
               THEN "<=" ELSE op2
    IN IF HasAny(ql, {<<" ", "e", "q", "u", "a", "l">>, <<"e", "x", "a", "c", "t">>,
                      <<" ", "=", " ">>})
       THEN "=" ELSE op3

\* lines 51-55
HeightFilters(ql, op) ==
    IF FeetStart(ql) > 0
    THEN <<FilterSpec("height_m", op, PyFloat(FeetToMeters(DecimalValue(
             SubSeq(ql, FeetStart(ql), NumberEnd(ql, FeetStart(ql)))))))>>
    ELSE IF MetersStart(ql) > 0
    THEN <<FilterSpec("height_m", op, PyFloat(DecimalValue(
             SubSeq(ql, MetersStart(ql), NumberEnd(ql, MetersStart(ql))))))>>
    ELSE <<>>

\* lines 58-59
LevelFilters(ql, op) ==
    IF LevelsStart(ql) > 0
    THEN <<FilterSpec("levels", op, PyFloat(DecimalValue(
             SubSeq(ql, LevelsStart(ql), IntegerEnd(ql, LevelsStart(ql))))))>>
    ELSE <<>>

\* lines 62-63
ZoneFilters(q) ==
    IF ZoneStart(q) > 0
    THEN <<FilterSpec("zoning", "=", PyStr(SubSeq(q, ZoneStart(q), ZoneEnd(q, ZoneStart(q)))))>>
    ELSE <<>>

\* lines 66-71: float("") raises and the filter is dropped
MoneyFilters(q, ql, op) ==
    IF MoneyHint(q, ql) /\ MoneyStart(ql) > 0
    THEN LET g == MoneyStart(ql)
             digits == WithoutCommas(SubSeq(ql, g, AmountEnd(ql, g)))
         IN IF digits = <<>> THEN <<>>
            ELSE <<FilterSpec("assessed_value", op, PyFloat(DecimalValue(digits)))>>
    ELSE <<>>

Commercial == <<"c", "o", "m", "m", "e", "r", "c", "i", "a", "l">>
Residential == <<"r", "e", "s", "i", "d", "e", "n", "t", "i", "a", "l">>

\* lines 74-77
UseFilters(ql) ==
    (IF IsSubstring(Commercial, ql)
     THEN <<FilterSpec("use", "=", PyStr(Commercial))>> ELSE <<>>)
    \o (IF IsSubstring(Residential, ql)
        THEN <<FilterSpec("use", "=", PyStr(Residential))>> ELSE <<>>)

\* lines 23-79
FallbackRuleBased(q) ==
    LET ql == Lower(q)
        op == InferOperator(ql)
    IN HeightFilters(ql, op) \o LevelFilters(ql, op) \o ZoneFilters(q)
       \o MoneyFilters(q, ql, op) \o UseFilters(ql)

\* the example queries of the prompt (lines 12, 15, 18) and one that names
\* nothing
QueryFeet ==
    <<"h", "i", "g", "h", "l", "i", "g", "h", "t", " ", "b", "u", "i", "l",
      "d", "i", "n", "g", "s", " ", "o", "v", "e", "r", " ", "1", "0", "0",
      " ", "f", "e", "e", "t">>
QueryValue ==
    <<"s", "h", "o", "w", " ", "b", "u", "i", "l", "d", "i", "n", "g", "s",
      " ", "l", "e", "s", "s", " ", "t", "h", "a", "n", " ", "$", "5", "0",
      "0", ",", "0", "0", "0", " ", "i", "n", " ", "v", "a", "l", "u",
      "e">>
QueryZone ==
    <<"s", "h", "o", "w", " ", "b", "u", "i", "l", "d", "i", "n", "g", "s",
      " ", "i", "n", " ", "R", "C", "-", "G", " ", "z", "o", "n", "i", "n",
      "g">>
QueryPlain == <<"h", "e", "l", "l", "o">>

SampleQueries == {QueryFeet, QueryValue, QueryZone, QueryPlain}

\* Queries for the extractor alone: up to MaxHints operator phrases, then what
\* the query asks for. The phrases are the hint words of lines 43-46 (one of
\* them capitalised, "equal" and "=" with and without the blank before them
\* that the code asks for) and "over", which is no hint.
MaxHints == 2

HintPhrases ==
    {<<"l", "e", "s", "s", " ", "t", "h", "a", "n">>,
     <<"U", "n", "d", "e", "r">>,
     <<"b", "e", "l", "o", "w">>,
     <<"<">>,
     <<"a", "t", " ", "l", "e", "a", "s", "t">>,
     <<">", "=">>,
     <<"a", "t", " ", "m", "o", "s", "t">>,
     <<"<", "=">>,
     <<"e", "q", "u", "a", "l">>,
     <<"e", "x", "a", "c", "t", "l", "y">>,
     <<"=">>,
     <<"o", "v", "e", "r">>}

BodyFeet ==
    <<"1", "0", "0", " ", "f", "e", "e", "t">>

BodyMeters ==
    <<"3", "0", ".", "5", " ", "m">>

BodyLevelsZone ==
    <<"5", " ", "s", "t", "o", "r", "e", "y", "s", " ", "i", "n", " ", "R",
    "C", "-", "G">>

BodyMoney ==
    <<"$", "5", "0", "0", ",", "0", "0", "0", " ", "i", "n", " ", "v", "a",
    "l", "u", "e">>

BodyAll ==
    <<"C", "-", "C", "O", "R", " ", "w", "o", "r", "t", "h", " ", "9", "0",
    "0", " ", "w", "i", "t", "h", " ", "1", "2", " ", "l", "e", "v", "e", "l",
    "s", " ", "4", "0", " ", "f", "t">>

BodyNothing ==
    <<"h", "e", "l", "l", "o">>

QueryBodies == {BodyFeet, BodyMeters, BodyLevelsZone, BodyMoney, BodyAll, BodyNothing}

\* " ".join(words)
RECURSIVE JoinWords(_)
JoinWords(ws) ==
    IF ws = <<>> THEN <<>>
    ELSE IF Len(ws) = 1 THEN ws[1]
    ELSE ws[1] \o <<" ">> \o JoinWords(Tail(ws))

ExtractorQueries ==
    {JoinWords(hs \o <<b>>) : hs \in SeqsUpTo(HintPhrases, MaxHints), b \in QueryBodies}

InitExtract ==
    /\ qtext \in ExtractorQueries
    /\ extracted = <<>>
    /\ pc = "extract"
    /\ EnrichIdle /\ FilterIdle /\ ParseIdle /\ NormIdle

\* lines 23-79: one call of _fallback_rule_based
ExtractCall ==
    /\ pc = "extract"
    /\ extracted' = FallbackRuleBased(qtext)
    /\ pc' = "extracted"
    /\ UNCHANGED <<qtext, enrichVars, filterVars, parseVars, normVars>>

NextExtract == ExtractCall

SpecExtract == InitExtract /\ [][NextExtract]_vars

----------------------------------------------------------------------------
\* Properties of _fallback_rule_based

\* the hint groups in the order they are checked, with the operator of each
HintGroups ==
    <<[op |-> "<",
       hints |-> {<<"l", "e", "s", "s", " ", "t", "h", "a", "n">>,
                  <<"u", "n", "d", "e", "r">>, <<"b", "e", "l", "o", "w">>, <<"<">>}],
      [op |-> ">=",
       hints |-> {<<"a", "t", " ", "l", "e", "a", "s", "t">>, <<">", "=">>}],
      [op |-> "<=",
       hints |-> {<<"a", "t", " ", "m", "o", "s", "t">>, <<"<", "=">>}],
      [op |-> "=",
       hints |-> {<<" ", "e", "q", "u", "a", "l">>, <<"e", "x", "a", "c", "t">>,
                  <<" ", "=", " ">>}]>>

\* the groups one of whose hints occurs in the lower-cased query
MatchingGroups(ql) ==
    {g \in 1..Len(HintGroups) : \E w \in HintGroups[g].hints : IsSubstring(w, ql)}

\* the operator of the last matching group, ">" when no group matches
LastGroupOperator(ql) ==
    LET G == MatchingGroups(ql)
    IN IF G = {} THEN ">"
       ELSE HintGroups[CHOOSE g \in G : \A o \in G : o <= g].op

\* C11: the extractor infers one operator, that of the last group in the order
\* '<' hints, '>=' hints, '<=' hints, '=' hints one of whose hints occurs in
\* the query ('>' when none does); every height_m, levels and assessed_value
\* filter it emits carries that operator and a zoning filter always carries
\* '='.
C11_OneSharedOperator ==
    pc = "extracted" =>
        \A k \in 1..Len(extracted) :
            /\ extracted[k].attribute \in NumericAttributes =>
                   extracted[k].operator = LastGroupOperator(Lower(qtext))
            /\ extracted[k].attribute = "zoning" => extracted[k].operator = "="

\* a query with a '<' hint and a '<=' hint that names a height, a number of
\* levels, a value and a zone: three numeric filters with '<=' and the zoning
\* filter with '='
C11_Witness ==
    /\ pc = "extracted"
    /\ MatchingGroups(Lower(qtext)) = {1, 3}
    /\ \A a \in NumericAttributes :
           \E k \in 1..Len(extracted) :
               extracted[k].attribute = a /\ extracted[k].operator = "<="
    /\ \E k \in 1..Len(extracted) :
           extracted[k].attribute = "zoning" /\ extracted[k].operator = "="

----------------------------------------------------------------------------
\* parse_filters

\* lines 90-94
Candidates(prim) ==
    <<prim, "HuggingFaceH4/zephyr-7b-beta", "mistralai/Mistral-7B-Instruct-v0.3">>

\* The "filters" member of the JSON object a response carries: t is its JSON
\* type, empty says that Python takes it for false, items are the elements of
\* an array. An element is a filter object (dict) or anything else.
JNull == [t |-> "null", empty |-> TRUE, items |-> <<>>]
JString == [t |-> "string", empty |-> FALSE, items |-> <<>>]
JNumber == [t |-> "number", empty |-> FALSE, items |-> <<>>]
JArray(xs) == [t |-> "array", empty |-> (xs = <<>>), items |-> xs]

Item(a, o, v) == [dict |-> TRUE, attribute |-> a, operator |-> o, value |-> v]
NotADict == [dict |-> FALSE, attribute |-> "", operator |-> "", value |-> None]

\* What one text_generation call does: it raises exc, or returns a text
\*   "no_braces"  without any {...}
\*   "bad_json"   whose {...} json.loads rejects
\*   "object"     whose {...} is a JSON object, with or without "filters"
Raises(e) == [kind |-> "raises", exc |-> e, haskey |-> FALSE, filters |-> JNull]
Text(k) == [kind |-> k, exc |-> "", haskey |-> FALSE, filters |-> JNull]
Object(has, fs) == [kind |-> "object", exc |-> "", haskey |-> has, filters |-> fs]

Responses ==
    {Raises("InferenceTimeoutError"), Raises("HfHubHTTPError"),
     Text("no_braces"), Text("bad_json"),
     Object(FALSE, JNull), Object(TRUE, JNull), Object(TRUE, JString),
     Object(TRUE, JNumber), Object(TRUE, JArray(<<>>)),
     Object(TRUE, JArray(<<Item("height_m", ">", PyInt(100))>>)),
     Object(TRUE, JArray(<<Item("zoning", "=", RCG),
                           Item("assessed_value", "<", PyStr(<<"l", "o", "w">>))>>)),
     Object(TRUE, JArray(<<Item("zoning", "=", RCG), NotADict>>))}

\* lines 127-132: float() of the value of a numeric filter, kept as it is
\* when float() raises
NormalizeItem(f) ==
    FilterSpec(f.attribute, f.operator,
               IF f.attribute \in {"height_m", "levels", "assessed_value"}
                  /\ ~FloatRaises(f.value)
               THEN PyFloat(FloatOf(f.value)) ELSE f.value)

\* lines 110-136: what the loop body makes of a response
AttemptOutcome(resp) ==
    LET Failed(e) == [ok |-> FALSE, err |-> e, filters |-> <<>>]
        Done(fs) == [ok |-> TRUE, err |-> "", filters |-> fs]
    IN CASE resp.kind = "raises" -> Failed(resp.exc)
         [] resp.kind = "no_braces" -> Failed("no_json")
         [] resp.kind = "bad_json" -> Failed("JSONDecodeError")
         [] OTHER ->
            \* fs = obj.get("filters") or []
            IF ~resp.haskey \/ resp.filters.empty THEN Done(<<>>)
            \* for f in fs: f.get("attribute")
            ELSE IF resp.filters.t = "number" THEN Failed("TypeError")
            ELSE IF resp.filters.t = "string" THEN Failed("AttributeError")
            ELSE IF \E k \in 1..Len(resp.filters.items) : ~resp.filters.items[k].dict
                 THEN Failed("AttributeError")
            ELSE Done([k \in 1..Len(resp.filters.items) |->
                          NormalizeItem(resp.filters.items[k])])

\* a note that names the default model whichever candidate answered
DefaultModelNote(model) == "hf:Qwen/Qwen2.5-7B-Instruct"

\* line 133: the note of a successful attempt
SuccessNote(model) == "hf:" \o model

\* last_err set by the first failure only
KeepFirstFailure(last, err) == IF last = "None" THEN err ELSE last

\* lines 122, 135: last_err after a failed attempt
RecordFailure(last, err) == err

\* a loop that goes on to the next candidate after a success too
AlwaysContinue(outcome) == "attempt"

\* lines 123, 133, 136: return on success, continue on failure
AfterAttempt(outcome) == IF outcome.ok THEN "parsed" ELSE "attempt"

\* line 97: if not token
NoToken(tok) == tok = ""

\* _fallback_rule_based(query) or []
FallbackFilters(q) == FallbackRuleBased(q)

InitParse ==
    /\ token \in {"", "hf_token"}
    /\ hub \in BOOLEAN
    /\ primary \in {"Qwen/Qwen2.5-7B-Instruct", "HuggingFaceH4/zephyr-7b-beta"}
    /\ query \in SampleQueries
    /\ ci = 0
    /\ last_err = "None"
    /\ attempts = <<>>
    /\ result = [filters |-> <<>>, note |-> ""]
    /\ pc = "parse"
    /\ EnrichIdle /\ FilterIdle /\ ExtractIdle /\ NormIdle

\* lines 88-107: up to the loop
ParseStart ==
    /\ pc = "parse"
    /\ IF NoToken(token)
       THEN /\ result' = [filters |-> FallbackFilters(query), note |-> "fallback"]
            /\ pc' = "parsed"
            /\ ci' = ci
       ELSE IF ~hub
       THEN /\ result' = [filters |-> FallbackFilters(query),
                          note |-> "fallback_error:missing_huggingface_hub"]
            /\ pc' = "parsed"
            /\ ci' = ci
       ELSE /\ ci' = 1
            /\ pc' = "attempt"
            /\ result' = result
    /\ UNCHANGED <<token, hub, primary, query, last_err, attempts>>
    /\ UNCHANGED <<enrichVars, filterVars, extractVars, normVars>>

\* lines 109-136: one iteration of the loop over the candidates
Attempt ==
    /\ pc = "attempt"
    /\ ci <= Len(Candidates(primary))
    /\ \E resp \in Responses :
        LET model == Candidates(primary)[ci]
            outcome == AttemptOutcome(resp)
        IN /\ attempts' = Append(attempts,
                  [model |-> model, resp |-> resp, ok |-> outcome.ok, err |-> outcome.err])
           /\ pc' = AfterAttempt(outcome)
           /\ IF outcome.ok
              THEN /\ result' = [filters |-> outcome.filters, note |-> SuccessNote(model)]
                   /\ last_err' = last_err
              ELSE /\ result' = result
                   /\ last_err' = RecordFailure(last_err, outcome.err)
           /\ ci' = ci + 1
    /\ UNCHANGED <<token, hub, primary, query>>
    /\ UNCHANGED <<enrichVars, filterVars, extractVars, normVars>>

\* line 139: every candidate failed
AllFailed ==
    /\ pc = "attempt"
    /\ ci > Len(Candidates(primary))
    /\ result' = [filters |-> FallbackFilters(query),
                  note |-> "fallback_error:" \o last_err]
    /\ pc' = "parsed"
    /\ UNCHANGED <<token, hub, primary, query, ci, last_err, attempts>>
    /\ UNCHANGED <<enrichVars, filterVars, extractVars, normVars>>

NextParse == ParseStart \/ Attempt \/ AllFailed

SpecParse == InitParse /\ [][NextParse]_vars

----------------------------------------------------------------------------
\* Properties of parse_filters

LastAttempt == attempts[Len(attempts)]

EveryCandidateFailed ==
    /\ Len(attempts) = Len(Candidates(primary))
    /\ \A k \in 1..Len(attempts) : ~attempts[k].ok

\* C6: the candidates are attempted one at a time in the fixed order, each
\* position at most once, a candidate only after every earlier one has failed
\* and none after a success; without a credential none is attempted and the
\* result is the extractor's filters with note "fallback".
C6_SequentialAttempts ==
    /\ Len(attempts) <= Len(Candidates(primary))
    /\ \A k \in 1..Len(attempts) : attempts[k].model = Candidates(primary)[k]
    /\ \A k \in 1..(Len(attempts) - 1) : ~attempts[k].ok
    /\ token = "" =>
        /\ attempts = <<>>
        /\ pc = "parsed" =>
               result = [filters |-> FallbackRuleBased(query), note |-> "fallback"]

\* the third candidate answers after the first two have failed
C6_Witness ==
    /\ pc = "parsed"
    /\ Len(attempts) = 3
    /\ ~attempts[1].ok /\ ~attempts[2].ok /\ attempts[3].ok
    /\ attempts[3].model = "mistralai/Mistral-7B-Instruct-v0.3"

\* C7: when every candidate has failed, parse_filters returns the extractor's
\* filters for the query and the note "fallback_error:<kind>", <kind> being
\* the failure kind of the last candidate attempted.
C7_FallbackNamesLastFailure ==
    (pc = "parsed" /\ EveryCandidateFailed) =>
        /\ result.filters = FallbackRuleBased(query)
        /\ result.note = "fallback_error:" \o LastAttempt.err
        /\ LastAttempt.resp.kind = "raises" =>
               result.note = "fallback_error:" \o LastAttempt.resp.exc
        /\ LastAttempt.resp.kind = "no_braces" => result.note = "fallback_error:no_json"
        /\ LastAttempt.resp.kind = "bad_json" =>
               result.note = "fallback_error:JSONDecodeError"

\* three failures of different kinds, the last one a timeout, on a query the
\* extractor finds a filter in
C7_Witness ==
    /\ pc = "parsed"
    /\ EveryCandidateFailed
    /\ attempts[1].err = "no_json"
    /\ attempts[2].err = "JSONDecodeError"
    /\ result.note = "fallback_error:InferenceTimeoutError"
    /\ result.filters # <<>>

SucceededLast == attempts # <<>> /\ LastAttempt.ok

\* C8 as stated: the note of a successful candidate <name> is "model:<name>".
C8_NoteIsModelName ==
    (pc = "parsed" /\ SucceededLast) => result.note = "model:" \o LastAttempt.model

\* C8: the note of a successful candidate <name> is "hf:<name>", the
\* candidate whose response produced the returned filters.
C8_NoteIsHfName ==
    (pc = "parsed" /\ SucceededLast) =>
        /\ result.note = "hf:" \o LastAttempt.model
        /\ result.filters = AttemptOutcome(LastAttempt.resp).filters

\* the second candidate answers with a filter after the primary has failed
C8_Witness ==
    /\ pc = "parsed"
    /\ primary = "Qwen/Qwen2.5-7B-Instruct"
    /\ Len(attempts) = 2
    /\ LastAttempt.ok
    /\ result.filters # <<>>
    /\ result.note = "hf:HuggingFaceH4/zephyr-7b-beta"

\* the response carries a JSON object with a "filters" array
HasFiltersArray(resp) ==
    resp.kind = "object" /\ resp.haskey /\ resp.filters.t = "array"

\* C10: a response is accepted only if it carries a JSON object with a
\* "filters" array; any other response is a failure of its candidate.
C10_RequiresFiltersArray ==
    \A k \in 1..Len(attempts) : attempts[k].ok => HasFiltersArray(attempts[k].resp)

----------------------------------------------------------------------------
\* norm_building, norm_land_use, norm_assess. A feature is a geometry and its
\* properties, a dict: the sequence of its items [k, v] in the dict's order,
\* no key twice, a key being a tuple of characters.

\* p.keys()
Keys(p) == [i \in 1..Len(p) |-> p[i].k]

\* p.get(key)
PropsGet(p, key) ==
    IF \E i \in 1..Len(p) : p[i].k = key
    THEN p[CHOOSE i \in 1..Len(p) : p[i].k = key].v
    ELSE None

\* lines 78-80
HeightCandidates ==
    <<<<"h", "e", "i", "g", "h", "t", "_", "m">>,
      <<"H", "E", "I", "G", "H", "T", "_", "M">>,
      <<"h", "e", "i", "g", "h", "t">>,
      <<"b", "u", "i", "l", "d", "i", "n", "g", "_", "h", "e", "i", "g", "h", "t">>,
      <<"b", "l", "d", "g", "_", "h", "e", "i", "g", "h", "t", "_", "m">>>>
\* lines 93-95
LevelCandidates ==
    <<<<"l", "e", "v", "e", "l", "s">>,
      <<"L", "E", "V", "E", "L", "S">>,
      <<"s", "t", "o", "r", "e", "y", "s">>,
      <<"s", "t", "o", "r", "i", "e", "s">>,
      <<"n", "u", "m", "_", "s", "t", "o", "r", "e", "y", "s">>,
      <<"n", "u", "m", "b", "e", "r", "_", "o", "f", "_", "s", "t", "o", "r", "e", "y", "s">>>>
\* line 116
IdCandidates ==
    <<<<"o", "b", "j", "e", "c", "t", "i", "d">>,
      <<"i", "d">>,
      <<"O", "B", "J", "E", "C", "T", "I", "D">>,
      <<"b", "l", "d", "g", "_", "i", "d">>,
      <<"B", "L", "D", "G", "_", "I", "D">>,
      <<"m", "a", "p", "i", "d">>,
      <<"M", "A", "P", "I", "D">>>>
\* line 120
AddressCandidates ==
    <<<<"a", "d", "d", "r", "e", "s", "s">>,
      <<"A", "D", "D", "R", "E", "S", "S">>,
      <<"c", "i", "v", "i", "c", "_", "a", "d", "d", "r", "e", "s", "s">>>>
\* line 121
ZoningCandidates ==
    <<<<"z", "o", "n", "i", "n", "g">>,
      <<"Z", "O", "N", "I", "N", "G">>,
      <<"l", "a", "n", "d", "_", "u", "s", "e">>,
      <<"L", "A", "N", "D", "_", "U", "S", "E">>>>
\* line 132
LandUseCandidates ==
    <<<<"l", "a", "n", "d", "_", "u", "s", "e", "_", "d", "i", "s", "t", "r", "i", "c", "t">>,
      <<"l", "a", "n", "d", "u", "s", "e", "_", "d", "i", "s", "t", "r", "i", "c", "t">>,
      <<"l", "a", "n", "d", "u", "s", "e">>,
      <<"d", "i", "s", "t", "r", "i", "c", "t">>,
      <<"z", "o", "n", "e">>,
      <<"z", "o", "n", "i", "n", "g">>>>
\* line 147
AssessAddressCandidates ==
    <<<<"a", "d", "d", "r", "e", "s", "s">>,
      <<"s", "t", "r", "e", "e", "t", "_", "a", "d", "d", "r", "e", "s", "s">>,
      <<"s", "i", "t", "u", "s", "_", "a", "d", "d", "r">>>>

\* lines 82-90 and 97-105: the value of the first candidate from position i on
\* that is not None and that float() accepts, None when there is none
RECURSIVE FirstNumber(_, _, _)
FirstNumber(p, keys, i) ==
    IF i > Len(keys) THEN None
    ELSE LET v == PropsGet(p, keys[i])
         IN IF v = None \/ FloatRaises(v) THEN FirstNumber(p, keys, i + 1)
            ELSE PyFloat(FloatOf(v))

\* int(x) of a float x >= 0 in hundredths
IntOf(h) == h \div 100

\* round(x / 3.0) of a float x >= 0 in hundredths: to the nearest integer, a
\* half to the even one
RoundThird(h) ==
    LET n == h \div 300
        r == h % 300
    IN IF r < 150 THEN n
       ELSE IF r > 150 THEN n + 1
       ELSE IF n % 2 = 0 THEN n ELSE n + 1

\* a or b or ... or z over props.get of the keys from position i on: the first
\* value Python takes for true, the last operand when there is none
RECURSIVE OrChain(_, _, _)
OrChain(p, keys, i) ==
    IF i >= Len(keys) THEN PropsGet(p, keys[i])
    ELSE IF Truthy(PropsGet(p, keys[i])) THEN PropsGet(p, keys[i])
    ELSE OrChain(p, keys, i + 1)

\* lines 65-70: _first
RECURSIVE FirstOf(_, _, _, _)
FirstOf(p, keys, default, i) ==
    IF i > Len(keys) THEN default
    ELSE LET v == PropsGet(p, keys[i])
         IN IF v # None /\ v # PyStr(<<>>) THEN v
            ELSE FirstOf(p, keys, default, i + 1)

\* lines 72-124
NormBuildingRecord(f) ==
    LET p == f.properties
        explicit == FirstNumber(p, HeightCandidates, 1)
        counted == FirstNumber(p, LevelCandidates, 1)
        levels == IF counted = None THEN None ELSE PyInt(IntOf(counted.n))
        height_m == IF explicit # None THEN explicit
                    ELSE IF levels # None THEN PyFloat(300 * levels.n)
                    ELSE PyFloat(1200)
    IN [id |-> OrChain(p, IdCandidates, 1),
        geometry |-> f.geometry,
        height_m |-> height_m,
        levels |-> IF levels # None THEN levels ELSE PyInt(RoundThird(height_m.n)),
        address |-> OrChain(p, AddressCandidates, 1),
        zoning |-> OrChain(p, ZoningCandidates, 1),
        assessed_value |-> None,
        raw |-> p]

\* lines 130-133: the value under the first key of the dict whose lower-case
\* form is a candidate, whatever that value is; None when there is no such key
LandUseValue(p) ==
    LET named == {i \in 1..Len(p) :
                     \E c \in 1..Len(LandUseCandidates) :
                         Lower(p[i].k) = LandUseCandidates[c]}
    IN IF named = {} THEN None ELSE p[First(named)].v

\* lines 127-134
NormLandUse(f) ==
    LET z == LandUseValue(f.properties)
    IN [zoning |-> IF Truthy(z) THEN z ELSE Unknown,
        geometry |-> f.geometry,
        raw |-> f.properties]

\* line 142: the key names an assessed value
IsAssessKey(k) ==
    LET kl == Lower(k)
    IN /\ IsSubstring(<<"a", "s", "s", "e", "s", "s", "e", "d">>, kl)
       /\ \/ IsSubstring(<<"v", "a", "l", "u", "e">>, kl)
          \/ IsSubstring(<<"t", "o", "t", "a", "l">>, kl)

\* str(v).replace(",", "")
AmountText(v) == WithoutCommas(StrOf(v))

\* float(s) raises on a string s that is not digits with an optional decimal
\* part (the strings of the model are such numbers, words and "")
DecimalRaises(cs) == cs = <<>> \/ NumberEnd(cs, 1) # Len(cs)

\* lines 140-146: the items from position i on, in the dict's order
RECURSIVE AssessedValue(_, _)
AssessedValue(p, i) ==
    IF i > Len(p) THEN None
    ELSE IF IsAssessKey(p[i].k) /\ ~DecimalRaises(AmountText(p[i].v))
    THEN PyFloat(DecimalValue(AmountText(p[i].v)))
    ELSE AssessedValue(p, i + 1)

\* lines 136-148
NormAssess(f) ==
    [assessed_value |-> AssessedValue(f.properties, 1),
     address |-> FirstOf(f.properties, AssessAddressCandidates, Unknown, 1),
     geometry |-> f.geometry,
     raw |-> f.properties]

\* Features: up to MaxProps properties out of the keys the normalizers look
\* for, each with values of the kinds a catalog delivers for it (missing,
\* empty, a word, a number as text or as a number)
MaxProps == 2

MainSt == PyStr(<<"1", " ", "M", "a", "i", "n">>)

PropertyItems ==
    {[k |-> k, v |-> v] :
        k \in {<<"h", "e", "i", "g", "h", "t", "_", "m">>,
               <<"h", "e", "i", "g", "h", "t">>},
        v \in {PyStr(<<>>), PyStr(<<"t", "a", "l", "l">>), PyStr(<<"6">>), PyFloat(1050)}}
    \cup {[k |-> k, v |-> v] :
        k \in {<<"l", "e", "v", "e", "l", "s">>},
        v \in {PyStr(<<>>), PyStr(<<"6">>), PyFloat(390)}}
    \cup {[k |-> k, v |-> v] :
        k \in {<<"z", "o", "n", "i", "n", "g">>,
               <<"Z", "O", "N", "E">>,
               <<"L", "A", "N", "D", "_", "U", "S", "E">>},
        v \in {None, PyStr(<<>>), RCG, CCOR}}
    \cup {[k |-> k, v |-> v] :
        k \in {<<"a", "s", "s", "e", "s", "s", "e", "d", "_", "v", "a", "l", "u", "e">>,
               <<"T", "O", "T", "A", "L", "_", "A", "S", "S", "E", "S", "S", "E", "D">>},
        v \in {PyStr(<<>>), PyStr(<<"n", "/", "a">>),
               PyStr(<<"1", ",", "2", "0", "0">>), PyFloat(50000)}}
    \cup {[k |-> k, v |-> v] :
        k \in {<<"a", "d", "d", "r", "e", "s", "s">>,
               <<"s", "t", "r", "e", "e", "t", "_", "a", "d", "d", "r", "e", "s", "s">>},
        v \in {PyStr(<<>>), MainSt}}
    \cup {[k |-> k, v |-> v] :
        k \in {<<"o", "b", "j", "e", "c", "t", "i", "d">>,
               <<"i", "d">>},
        v \in {PyInt(0), PyInt(7)}}

\* the dicts: no key twice
PropertyDicts ==
    {p \in SeqsUpTo(PropertyItems, MaxProps) :
        \A i, j \in 1..Len(p) : i # j => p[i].k # p[j].k}

Features ==
    {[geometry |-> g, properties |-> p] : g \in {NoGeom, Footprint}, p \in PropertyDicts}

InitNorm ==
    /\ feature \in Features
    /\ normed = <<>>
    /\ pc = "norm"
    /\ EnrichIdle /\ FilterIdle /\ ParseIdle /\ ExtractIdle

\* lines 72-124: one call of norm_building
NormBuildingCall ==
    /\ pc = "norm"
    /\ normed' = NormBuildingRecord(feature)
    /\ pc' = "building"
    /\ UNCHANGED <<feature, enrichVars, filterVars, parseVars, extractVars>>

\* lines 127-134: one call of norm_land_use
NormLandUseCall ==
    /\ pc = "norm"
    /\ normed' = NormLandUse(feature)
    /\ pc' = "land_use"
    /\ UNCHANGED <<feature, enrichVars, filterVars, parseVars, extractVars>>

\* lines 136-148: one call of norm_assess
NormAssessCall ==
    /\ pc = "norm"
    /\ normed' = NormAssess(feature)
    /\ pc' = "assess"
    /\ UNCHANGED <<feature, enrichVars, filterVars, parseVars, extractVars>>

NextNorm == NormBuildingCall \/ NormLandUseCall \/ NormAssessCall

SpecNorm == InitNorm /\ [][NextNorm]_vars

----------------------------------------------------------------------------
\* Properties of the normalizers

\* present and non-empty, as _first takes it
NonEmpty(v) == v # None /\ v # PyStr(<<>>)

\* the values of the candidates, in the candidate order
CandidateValues(p, keys) == [i \in 1..Len(keys) |-> PropsGet(p, keys[i])]

\* the first non-empty value, the default when there is none
ResolvedText(vs, default) ==
    LET U == {i \in 1..Len(vs) : NonEmpty(vs[i])}
    IN IF U = {} THEN default ELSE vs[First(U)]

\* the first non-empty value that is a number, as a float; None when there is
\* none
ResolvedNumber(vs) ==
    LET U == {i \in 1..Len(vs) : NonEmpty(vs[i]) /\ ~FloatRaises(vs[i])}
    IN IF U = {} THEN None ELSE PyFloat(FloatOf(vs[First(U)]))

\* the zoning label: the candidate names in their order, each matching the
\* keys whatever their case, the first non-empty value
ResolvedLandUse(p) ==
    LET U == {u \in (1..Len(LandUseCandidates)) \X (1..Len(p)) :
                 /\ Lower(p[u[2]].k) = LandUseCandidates[u[1]]
                 /\ NonEmpty(p[u[2]].v)}
        first == CHOOSE u \in U :
                     \A o \in U : u[1] < o[1] \/ (u[1] = o[1] /\ u[2] <= o[2])
    IN IF U = {} THEN Unknown ELSE p[first[2]].v

\* the assessed value: the keys that name one, in the order of the dict, the
\* first non-empty value that is an amount
ResolvedAssessed(p) ==
    LET U == {i \in 1..Len(p) :
                 /\ IsAssessKey(p[i].k)
                 /\ NonEmpty(p[i].v)
                 /\ ~DecimalRaises(AmountText(p[i].v))}
    IN IF U = {} THEN None ELSE PyFloat(DecimalValue(AmountText(p[First(U)].v)))

\* the fields of a building that have a value of their own or a derived one
HeightResolved ==
    LET p == feature.properties
        h == ResolvedNumber(CandidateValues(p, HeightCandidates))
        l == ResolvedNumber(CandidateValues(p, LevelCandidates))
    IN /\ h # None => normed.height_m = h
       /\ (h = None /\ l # None) => normed.height_m = PyFloat(300 * IntOf(l.n))
       /\ (h = None /\ l = None) => normed.height_m = PyFloat(1200)
       /\ l # None => normed.levels = PyInt(IntOf(l.n))
       /\ l = None => normed.levels = PyInt(RoundThird(normed.height_m.n))

\* the text fields of a building
BuildingTextResolved ==
    LET p == feature.properties
    IN /\ normed.id = ResolvedText(CandidateValues(p, IdCandidates), None)
       /\ normed.address = ResolvedText(CandidateValues(p, AddressCandidates), None)
       /\ normed.zoning = ResolvedText(CandidateValues(p, ZoningCandidates), None)

LandUseResolved == normed.zoning = ResolvedLandUse(feature.properties)

AssessResolved ==
    /\ normed.assessed_value = ResolvedAssessed(feature.properties)
    /\ normed.address =
           ResolvedText(CandidateValues(feature.properties, AssessAddressCandidates),
                        Unknown)

\* C12: every canonical field of norm_building, norm_land_use and norm_assess
\* is the value of the first candidate attribute, in the candidate order, that
\* is present, non-empty and parseable; an empty or unparseable candidate is
\* skipped and the later ones are still tried, and the default is used only
\* when no candidate has a usable value.
C12_FirstUsableCandidate ==
    /\ pc = "building" => HeightResolved /\ BuildingTextResolved
    /\ pc = "land_use" => LandUseResolved
    /\ pc = "assess" => AssessResolved

====
